---- MODULE Spec2Model ----
(***************************************************************************)
(* Persistence and passwordless-login core of the RFC app:                 *)
(*   db.js     (apps/rfc-app/src/rfcs.js lines 124-295): schema creation,  *)
(*             start-up migrations and the prepared statements;            *)
(*   server.js (unnamed/part_003): the Express routes that call them.      *)
(* Strings the code transforms (emails, codes) are sequences of one-       *)
(* character strings so that trim / toLowerCase / String() are computed.   *)
(***************************************************************************)
EXTENDS Integers, Sequences, FiniteSets

VARIABLES
    phase,      \* position of the process: a db.js start-up block, "ready" (serving) or "failed"
    db,         \* the SQLite file: [schema, rows, seq]
    clock,      \* host clock in milliseconds (Date.now(); SQLite 'now' reads the same clock)
    sessions,   \* express-session store: session id -> [pendingLogin, user]
    last,       \* the last request and the response it produced
    issued,     \* per user id: codes issued since the user's last successful verify (latest two)
    verified,   \* per user id: codes verified successfully since the user's last issue
    runs,       \* completed runs of the db.js start-up block
    ticks,      \* clock advances taken so far
    origin,     \* the store the first start found on disk
    lookups,    \* per caller: the email its findUserByEmail call did not find (<<>>: none)
    inflight    \* per caller: the request whose handler it has begun and not finished

vars == <<phase, db, clock, sessions, last, issued, verified, runs, ticks, origin, lookups,
          inflight>>

----------------------------------------------------------------------------
(* Bounds of the model *)

NumSessions == 2
NumCodes == 2
MaxTicks == 1
MaxTokenId == 2
MaxRuns == 2
NumCallers == 2
MaxComments == 3

(* Program constants *)

RandIntMin == 100000
LoginTtlSeconds == 10 * 60

MsPerSecond == 1000

----------------------------------------------------------------------------
(* String helpers: String.prototype.trim, toLowerCase, String(number) *)

Whitespace == {" "}

RECURSIVE TrimStart(_)
TrimStart(s) ==
    IF s # <<>> /\ Head(s) \in Whitespace THEN TrimStart(Tail(s)) ELSE s

RECURSIVE TrimEnd(_)
TrimEnd(s) ==
    IF s # <<>> /\ s[Len(s)] \in Whitespace
    THEN TrimEnd(SubSeq(s, 1, Len(s) - 1))
    ELSE s

Trim(s) == TrimEnd(TrimStart(s))

LowerChar(c) ==
    CASE c = "A" -> "a"
      [] c = "B" -> "b"
      [] OTHER -> c

ToLowerCase(s) == [i \in 1..Len(s) |-> LowerChar(s[i])]

DigitChar(d) ==
    CASE d = 0 -> "0" [] d = 1 -> "1" [] d = 2 -> "2" [] d = 3 -> "3"
      [] d = 4 -> "4" [] d = 5 -> "5" [] d = 6 -> "6" [] d = 7 -> "7"
      [] d = 8 -> "8" [] d = 9 -> "9"

RECURSIVE NumberToString(_)
NumberToString(n) ==
    IF n < 10 THEN <<DigitChar(n)>>
    ELSE Append(NumberToString(n \div 10), DigitChar(n % 10))

(* mutant: the email is trimmed but not lower-cased *)
NormalizeEmailTrimOnly(raw) == Trim(raw)

(* server.js line 119: req.body.email?.trim().toLowerCase() *)
NormalizeEmail(raw) == ToLowerCase(Trim(raw))

----------------------------------------------------------------------------
(* Inputs *)

SessionIds == 1..NumSessions

(* processes that open the same app.db and call the exports of db.js *)
Callers == 1..NumCallers

EmailInputs ==
    { <<>>, <<" ">>, <<"a">>, <<" ", "A", " ">>, <<"b">>, <<"B">> }

Emails == { NormalizeEmail(e) : e \in EmailInputs } \ { <<>> }

MaxUserId == Cardinality(Emails)
UserIds == 1..MaxUserId

(* crypto.randomInt(100000, 1000000) restricted to its first NumCodes values *)
RandomInts == RandIntMin..(RandIntMin + NumCodes - 1)

CodeInputs ==
    { <<" ">> }
    \cup { NumberToString(n) : n \in RandomInts }
    \cup { <<" ">> \o NumberToString(n) \o <<" ">> : n \in RandomInts }

(* documents listRfcs() finds in docs/rfc, and slugs a request may name *)
Docs == { "rfc-1", "rfc-2" }
SlugInputs == { "rfc-1", "draft" }

BodyInputs == { <<>>, <<" ">>, <<"h">>, <<" ", "h", " ">> }

ClockSteps == { 500, LoginTtlSeconds * MsPerSecond - 500 }

(* Math.floor(Date.now() / 1000) *)
AppNow(ms) == ms \div MsPerSecond

(* mutant: the store clock read in milliseconds *)
StoreNowMillis(ms) == ms

(* strftime('%s', 'now'): whole seconds of the same host clock; the column's *)
(* INTEGER affinity makes the comparison with expires_at numeric             *)
StoreNow(ms) == ms \div MsPerSecond

----------------------------------------------------------------------------
(* Schema descriptors (what PRAGMA table_info and sqlite_master report) *)

NoTable == [cols |-> {}, fk |-> "-", exists |-> FALSE]

Col(n, t, nn) == [name |-> n, type |-> t, notnull |-> nn]

Table(cols, fk) == [cols |-> cols, fk |-> fk, exists |-> TRUE]

UsersTable ==
    Table({ Col("id", "INTEGER", 0), Col("email", "TEXT", 1),
            Col("password_hash", "TEXT", 0), Col("created_at", "DATETIME", 0) },
          "-")

CommentsTable ==
    Table({ Col("id", "INTEGER", 0), Col("rfc_slug", "TEXT", 1),
            Col("user_id", "INTEGER", 1), Col("body", "TEXT", 1),
            Col("created_at", "DATETIME", 0) },
          "users")

LoginTokensTable ==
    Table({ Col("id", "INTEGER", 0), Col("user_id", "INTEGER", 1),
            Col("token", "TEXT", 1), Col("expires_at", "INTEGER", 1),
            Col("created_at", "DATETIME", 0) },
          "users")

TableNames ==
    { "users", "comments", "login_tokens", "rfcs",
      "users_old", "comments_old", "login_tokens_old" }

EmptyDb ==
    [ schema |-> [t \in TableNames |-> NoTable],
      rows   |-> [t \in TableNames |-> {}],
      seq    |-> [t \in TableNames |-> 0] ]

(* the store a first start on an empty data directory leaves (lines 142-167) *)
FreshDb ==
    [ EmptyDb EXCEPT
        !.schema = [t \in TableNames |->
                      CASE t = "users" -> UsersTable
                        [] t = "comments" -> CommentsTable
                        [] t = "login_tokens" -> LoginTokensTable
                        [] OTHER -> NoTable] ]

Ok(d) == [db |-> d, ok |-> TRUE, id |-> 0]
Err(d) == [db |-> d, ok |-> FALSE, id |-> 0]

HasNotNull(d, t, c) ==
    \E col \in d.schema[t].cols : col.name = c /\ col.notnull = 1

(* FOREIGN KEY (user_id) REFERENCES <parent>(id), enforced on insert: the  *)
(* parent table must exist and hold the referenced id                      *)
ForeignKeyOk(d, t, userId) ==
    LET parent == d.schema[t].fk IN
    parent = "-"
    \/ (parent \in TableNames /\ d.schema[parent].exists
        /\ \E u \in d.rows[parent] : u.id = userId)

----------------------------------------------------------------------------
(* Prepared statements of db.js *)

(* SELECT * FROM users WHERE email = ? *)
FindUserByEmail(d, email) == { u \in d.rows["users"] : u.email = email }

(* mutant: users.email without its UNIQUE constraint *)
CreateUserNoUnique(d, email, nowSec) ==
    LET id == d.seq["users"] + 1 IN
    [ db |-> [d EXCEPT
                !.rows["users"] = @ \cup
                   { [id |-> id, email |-> email,
                      password_hash |-> "NULL", created_at |-> nowSec] },
                !.seq["users"] = id],
      ok |-> TRUE, id |-> id ]

(* INSERT INTO users (email) VALUES (?) *)
CreateUser(d, email, nowSec) ==
    IF \/ ~d.schema["users"].exists
       \/ \E u \in d.rows["users"] : u.email = email
       \/ HasNotNull(d, "users", "password_hash")
    THEN Err(d)
    ELSE LET id == d.seq["users"] + 1 IN
         [ db |-> [d EXCEPT
                     !.rows["users"] = @ \cup
                        { [id |-> id, email |-> email,
                           password_hash |-> "NULL", created_at |-> nowSec] },
                     !.seq["users"] = id],
           ok |-> TRUE, id |-> id ]

(* INSERT INTO login_tokens (user_id, token, expires_at) VALUES (?, ?, ?) *)
CreateLoginToken(d, userId, token, expiresAt, nowSec) ==
    IF \/ ~d.schema["login_tokens"].exists
       \/ \E r \in d.rows["login_tokens"] : r.token = token
       \/ ~ForeignKeyOk(d, "login_tokens", userId)
    THEN Err(d)
    ELSE LET id == d.seq["login_tokens"] + 1 IN
         [ db |-> [d EXCEPT
                     !.rows["login_tokens"] = @ \cup
                        { [id |-> id, user_id |-> userId, token |-> token,
                           expires_at |-> expiresAt, created_at |-> nowSec] },
                     !.seq["login_tokens"] = id],
           ok |-> TRUE, id |-> id ]

(* mutant: the lookup without its user_id condition *)
FindLoginTokenAnyUser(d, userId, token, nowSec) ==
    { r \in d.rows["login_tokens"] : r.token = token /\ r.expires_at > nowSec }

(* mutant: the lookup without its expiry filter *)
FindLoginTokenAnyAge(d, userId, token, nowSec) ==
    { r \in d.rows["login_tokens"] : r.user_id = userId /\ r.token = token }

(* SELECT * FROM login_tokens WHERE user_id = ? AND token = ?
   AND expires_at > strftime('%s', 'now') *)
FindLoginToken(d, userId, token, nowSec) ==
    { r \in d.rows["login_tokens"] :
        r.user_id = userId /\ r.token = token /\ r.expires_at > nowSec }

(* mutant: the delete leaves the rows in place *)
DeleteLoginTokensForUserNoop(d, userId) == d

(* mutant: the delete takes the user's comments along *)
DeleteLoginTokensForUserAndComments(d, userId) ==
    [d EXCEPT !.rows["login_tokens"] = { r \in @ : r.user_id # userId },
              !.rows["comments"] = { c \in @ : c.user_id # userId }]

(* DELETE FROM login_tokens WHERE user_id = ? *)
DeleteLoginTokensForUser(d, userId) ==
    [d EXCEPT !.rows["login_tokens"] = { r \in @ : r.user_id # userId }]

(* mutant: the purge compares with < *)
DeleteExpiredLoginTokensStrict(d, nowSec) ==
    [d EXCEPT !.rows["login_tokens"] = { r \in @ : ~(r.expires_at < nowSec) }]

(* DELETE FROM login_tokens WHERE expires_at <= strftime('%s', 'now') *)
DeleteExpiredLoginTokens(d, nowSec) ==
    [d EXCEPT !.rows["login_tokens"] = { r \in @ : ~(r.expires_at <= nowSec) }]

(* mutant: the insert without its foreign key *)
CreateCommentUnchecked(d, rfcSlug, userId, body, nowSec) ==
    LET id == d.seq["comments"] + 1 IN
    [ db |-> [d EXCEPT
                !.rows["comments"] = @ \cup
                   { [id |-> id, rfc_slug |-> rfcSlug, user_id |-> userId,
                      body |-> body, created_at |-> nowSec] },
                !.seq["comments"] = id],
      ok |-> TRUE, id |-> id ]

(* INSERT INTO comments (rfc_slug, user_id, body) VALUES (?, ?, ?);         *)
(* created_at DEFAULT CURRENT_TIMESTAMP has whole-second resolution        *)
CreateComment(d, rfcSlug, userId, body, nowSec) ==
    IF \/ ~d.schema["comments"].exists
       \/ ~ForeignKeyOk(d, "comments", userId)
    THEN Err(d)
    ELSE LET id == d.seq["comments"] + 1 IN
         [ db |-> [d EXCEPT
                     !.rows["comments"] = @ \cup
                        { [id |-> id, rfc_slug |-> rfcSlug, user_id |-> userId,
                           body |-> body, created_at |-> nowSec] },
                     !.seq["comments"] = id],
           ok |-> TRUE, id |-> id ]

(* c JOIN users u ON c.user_id = u.id WHERE c.rfc_slug = ?, projected to    *)
(* c.id, c.body, c.created_at, u.email                                     *)
JoinedComments(d, rfcSlug) ==
    { [id |-> c.id, body |-> c.body, created_at |-> c.created_at,
       email |-> u.email] :
        <<c, u>> \in { cu \in d.rows["comments"] \X d.rows["users"] :
                         cu[1].user_id = cu[2].id /\ cu[1].rfc_slug = rfcSlug } }

(* the sequences that hold every element of S once *)
Arrangements(S) ==
    { q \in [1..Cardinality(S) -> S] :
        \A i, j \in 1..Cardinality(S) : i # j => q[i] # q[j] }

(* mutant: ORDER BY c.created_at DESC *)
GetCommentsForRfcNewestFirst(d, rfcSlug) ==
    CHOOSE q \in Arrangements(JoinedComments(d, rfcSlug)) :
        \A i, j \in 1..Len(q) : i < j =>
            \/ q[i].created_at > q[j].created_at
            \/ (q[i].created_at = q[j].created_at /\ q[i].id < q[j].id)

(* SELECT ... ORDER BY c.created_at ASC.  The statement names no second     *)
(* sort column; SQLite scans comments in rowid order (SCAN c, SEARCH u BY   *)
(* PRIMARY KEY) and its ORDER BY sorter keeps rows of equal created_at in   *)
(* the order they were scanned.                                            *)
GetCommentsForRfc(d, rfcSlug) ==
    CHOOSE q \in Arrangements(JoinedComments(d, rfcSlug)) :
        \A i, j \in 1..Len(q) : i < j =>
            \/ q[i].created_at < q[j].created_at
            \/ (q[i].created_at = q[j].created_at /\ q[i].id < q[j].id)

(* mutant: the count taken over the whole table, no GROUP BY *)
GetCommentCountsUngrouped(d) ==
    { [slug |-> s, count |-> Cardinality(d.rows["comments"])] :
        s \in { c.rfc_slug : c \in d.rows["comments"] } }

(* SELECT rfc_slug AS slug, COUNT(all rows) AS count FROM comments          *)
(* GROUP BY rfc_slug                                                       *)
GetCommentCounts(d) ==
    { [slug |-> s,
       count |-> Cardinality({ c \in d.rows["comments"] : c.rfc_slug = s })] :
        s \in { c.rfc_slug : c \in d.rows["comments"] } }

----------------------------------------------------------------------------
(* SQL statements of the start-up block, as SQLite executes them with      *)
(* foreign keys enforced (better-sqlite3's default)                        *)

(* ALTER TABLE from RENAME TO to: REFERENCES clauses of other tables that   *)
(* name the renamed table follow it to its new name                        *)
RenameTable(d, from, to) ==
    IF ~d.schema[from].exists \/ d.schema[to].exists
    THEN Err(d)
    ELSE Ok([ schema |-> [t \in TableNames |->
                            IF t = to THEN d.schema[from]
                            ELSE IF t = from THEN NoTable
                            ELSE IF d.schema[t].fk = from
                                 THEN [d.schema[t] EXCEPT !.fk = to]
                                 ELSE d.schema[t]],
              rows   |-> [t \in TableNames |->
                            IF t = to THEN d.rows[from]
                            ELSE IF t = from THEN {} ELSE d.rows[t]],
              seq    |-> [t \in TableNames |->
                            IF t = to THEN d.seq[from]
                            ELSE IF t = from THEN 0 ELSE d.seq[t]] ])

(* CREATE TABLE name (...) *)
CreateTable(d, name, def) ==
    IF d.schema[name].exists
    THEN Err(d)
    ELSE Ok([d EXCEPT !.schema[name] = def, !.rows[name] = {}, !.seq[name] = 0])

(* mutant: IF NOT EXISTS left out *)
CreateTableAlways(d, name, def) == CreateTable(d, name, def)

(* CREATE TABLE IF NOT EXISTS name (...) *)
CreateTableIfNotExists(d, name, def) ==
    IF d.schema[name].exists THEN Ok(d) ELSE CreateTable(d, name, def)

(* DROP TABLE name: an implicit DELETE FROM name runs first, and its rows'  *)
(* children go with them through ON DELETE CASCADE                         *)
DropTable(d, name) ==
    IF ~d.schema[name].exists
    THEN Err(d)
    ELSE LET gone == { r.id : r \in d.rows[name] } IN
         Ok([ schema |-> [d.schema EXCEPT ![name] = NoTable],
              rows   |-> [t \in TableNames |->
                            IF t = name THEN {}
                            ELSE IF d.schema[t].exists /\ d.schema[t].fk = name
                                 THEN { r \in d.rows[t] : r.user_id \notin gone }
                                 ELSE d.rows[t]],
              seq    |-> [d.seq EXCEPT ![name] = 0] ])

(* DROP TABLE IF EXISTS name *)
DropTableIfExists(d, name) ==
    IF d.schema[name].exists THEN DropTable(d, name) ELSE Ok(d)

SecondsPerDay == 24 * 60 * 60

(* A textual timestamp 'YYYY-MM-DD HH:MM:SS' is <<days since 1970-01-01,   *)
(* HH, MM, SS>>; any other text is <<>>.  strftime('%s', text) is NULL for  *)
(* text it cannot parse.                                                   *)
Parseable(ts) == Len(ts) = 4

StrftimeEpoch(ts) == ts[1] * SecondsPerDay + ts[2] * 60 * 60 + ts[3] * 60 + ts[4]

(* the n-th smallest id of a set of rows, n = 1.. *)
RECURSIVE RankOf(_, _)
RankOf(ids, id) ==
    IF ids = {} THEN 0
    ELSE LET m == CHOOSE x \in ids : \A y \in ids : x <= y IN
         IF m = id THEN 1 ELSE 1 + RankOf(ids \ {m}, id)

(* INSERT INTO login_tokens (user_id, token, expires_at, created_at)
   SELECT user_id, token, CAST(strftime('%s', expires_at) AS INTEGER), created_at
   FROM login_tokens_old *)
CopyLoginTokens(d) ==
    LET old == d.rows["login_tokens_old"]
        ids == { r.id : r \in old }
    IN  IF \/ ~d.schema["login_tokens_old"].exists
           \/ ~d.schema["login_tokens"].exists
           \/ \E r \in old : ~Parseable(r.expires_at)
           \/ \E r1, r2 \in old : r1.id # r2.id /\ r1.token = r2.token
           \/ \E r \in old : ~ForeignKeyOk(d, "login_tokens", r.user_id)
        THEN Err(d)
        ELSE Ok([d EXCEPT
                   !.rows["login_tokens"] =
                      { [id |-> RankOf(ids, r.id), user_id |-> r.user_id,
                         token |-> r.token,
                         expires_at |-> StrftimeEpoch(r.expires_at),
                         created_at |-> r.created_at] : r \in old },
                   !.seq["login_tokens"] = Cardinality(old)])

Max(S) == IF S = {} THEN 0 ELSE CHOOSE x \in S : \A y \in S : y <= x

(* mutant: the copy leaves password_hash out of its column list *)
CopyUsersWithoutHash(d) ==
    IF ~d.schema["users_old"].exists \/ ~d.schema["users"].exists
    THEN Err(d)
    ELSE Ok([d EXCEPT
               !.rows["users"] =
                  { [r EXCEPT !.password_hash = "NULL"] : r \in d.rows["users_old"] },
               !.seq["users"] = Max({ r.id : r \in d.rows["users_old"] })])

(* INSERT INTO users (id, email, password_hash, created_at)
   SELECT id, email, password_hash, created_at FROM users_old *)
CopyUsers(d) ==
    IF ~d.schema["users_old"].exists \/ ~d.schema["users"].exists
    THEN Err(d)
    ELSE Ok([d EXCEPT
               !.rows["users"] = d.rows["users_old"],
               !.seq["users"] = Max({ r.id : r \in d.rows["users_old"] })])

Stmt(op, t, to, def) == [op |-> op, t |-> t, to |-> to, def |-> def]

Apply(d, st) ==
    CASE st.op = "create_if_not_exists" -> CreateTableIfNotExists(d, st.t, st.def)
      [] st.op = "create" -> CreateTable(d, st.t, st.def)
      [] st.op = "rename" -> RenameTable(d, st.t, st.to)
      [] st.op = "drop" -> DropTable(d, st.t)
      [] st.op = "drop_if_exists" -> DropTableIfExists(d, st.t)
      [] st.op = "copy_login_tokens" -> CopyLoginTokens(d)
      [] st.op = "copy_users" -> CopyUsers(d)

(* db.exec(sql): the statements run one after the other, each committed on  *)
(* its own; the first that fails throws and the rest do not run            *)
RECURSIVE Exec(_, _)
Exec(d, stmts) ==
    IF stmts = <<>> THEN Ok(d)
    ELSE LET r == Apply(d, Head(stmts)) IN
         IF r.ok THEN Exec(r.db, Tail(stmts)) ELSE r

----------------------------------------------------------------------------
(* The start-up block of db.js (rfcs.js lines 142-232), one step per block *)

CreateTablesSql ==
    << Stmt("create_if_not_exists", "users", "-", UsersTable),
       Stmt("create_if_not_exists", "comments", "-", CommentsTable),
       Stmt("create_if_not_exists", "login_tokens", "-", LoginTokensTable) >>

MigrateCommentsSql ==
    << Stmt("rename", "comments", "comments_old", NoTable),
       Stmt("create", "comments", "-", CommentsTable),
       Stmt("drop", "comments_old", "-", NoTable) >>

DropRfcsSql == << Stmt("drop_if_exists", "rfcs", "-", NoTable) >>

MigrateLoginTokensSql ==
    << Stmt("rename", "login_tokens", "login_tokens_old", NoTable),
       Stmt("create", "login_tokens", "-", LoginTokensTable),
       Stmt("copy_login_tokens", "login_tokens", "-", NoTable),
       Stmt("drop", "login_tokens_old", "-", NoTable) >>

(* mutant: users_old is never dropped *)
MigrateUsersSqlKeepOld ==
    << Stmt("rename", "users", "users_old", NoTable),
       Stmt("create", "users", "-", UsersTable),
       Stmt("copy_users", "users", "-", NoTable) >>

MigrateUsersSql ==
    << Stmt("rename", "users", "users_old", NoTable),
       Stmt("create", "users", "-", UsersTable),
       Stmt("copy_users", "users", "-", NoTable),
       Stmt("drop", "users_old", "-", NoTable) >>

(* String.prototype.toUpperCase on a declared column type *)
ToUpperCase(t) ==
    CASE t = "integer" -> "INTEGER"
      [] t = "datetime" -> "DATETIME"
      [] t = "text" -> "TEXT"
      [] OTHER -> t

HasLegacyRfcIdColumn(d) ==
    \E col \in d.schema["comments"].cols : col.name = "rfc_id"

HasRfcsTable(d) == d.schema["rfcs"].exists

HasLegacyExpiresAt(d) ==
    \E col \in d.schema["login_tokens"].cols :
        col.name = "expires_at" /\ ToUpperCase(col.type) # "INTEGER"

HasNotNullPasswordHash(d) ==
    \E col \in d.schema["users"].cols :
        col.name = "password_hash" /\ col.notnull = 1

(* one block: run sql when the check asks for it; a throw ends the process *)
StartupStep(at, needed, sql, then) ==
    /\ phase = at
    /\ LET r == IF needed THEN Exec(db, sql) ELSE Ok(db) IN
       /\ db' = r.db
       /\ phase' = IF r.ok THEN then ELSE "failed"
       /\ runs' = IF r.ok /\ then = "ready" THEN runs + 1 ELSE runs
    /\ UNCHANGED <<clock, sessions, last, issued, verified, ticks, origin, lookups, inflight>>

StartupCreateTables == StartupStep("create", TRUE, CreateTablesSql, "comments")

StartupComments ==
    StartupStep("comments", HasLegacyRfcIdColumn(db), MigrateCommentsSql, "rfcs")

(* mutant: the users check follows the rfcs drop, before the tokens check *)
StartupRfcsThenUsers == StartupStep("rfcs", HasRfcsTable(db), DropRfcsSql, "users")

StartupRfcs == StartupStep("rfcs", HasRfcsTable(db), DropRfcsSql, "login_tokens")

StartupLoginTokens ==
    StartupStep("login_tokens", HasLegacyExpiresAt(db), MigrateLoginTokensSql, "users")

StartupUsers ==
    StartupStep("users", HasNotNullPasswordHash(db), MigrateUsersSql, "ready")

----------------------------------------------------------------------------
(* Sessions and responses *)

NoLogin == [userId |-> 0, email |-> <<>>]
NoUser == [id |-> 0, email |-> <<>>]
NewSession == [pendingLogin |-> NoLogin, user |-> NoUser]

(* the request handled by the last step: op, the raw email or trimmed code *)
(* it carried, the user id it resolved, the response, and for a verify the *)
(* codes outstanding for that user (hist) and why a lookup found nothing   *)
NoRequest ==
    [ op |-> "none", email |-> <<>>, uid |-> 0, code |-> <<>>,
      ok |-> FALSE, status |-> 0, redirect |-> "-", flash |-> "-",
      cause |-> "-", hist |-> <<>>,
      slug |-> "-", body |-> <<>>, rows |-> <<>>, counts |-> {},
      tally |-> [d \in Docs |-> 0] ]

(* a caller that is between two requests *)
NoCall == [op |-> "none", userId |-> 0, email |-> <<>>, code |-> <<>>]

Redirect(r, to, msg) == [r EXCEPT !.status = 302, !.redirect = to, !.flash = msg]

(* an exception thrown by a statement reaches Express's default error handler *)
ServerError(r) == [r EXCEPT !.status = 500]

KeepLast2(s) == IF Len(s) > 2 THEN SubSeq(s, Len(s) - 1, Len(s)) ELSE s

Latest(s) == s[Len(s)]

(* why a lookup for (userId, code) finds nothing, read off the rows and the clock *)
VerifyCause(d, userId, code, ms) ==
    LET mine == { r \in d.rows["login_tokens"] : r.user_id = userId }
        same == { r \in mine : r.token = code }
    IN  IF mine = {} THEN "none"
        ELSE IF same = {} THEN "wrong"
        ELSE IF \A r \in same : r.expires_at * MsPerSecond <= ms THEN "expired"
        ELSE "live"

----------------------------------------------------------------------------
(* POST /login/start (server.js lines 118-148) *)

LoginStart(s, raw, rnd) ==
    /\ phase = "ready"
    /\ LET email == NormalizeEmail(raw)
           req == [NoRequest EXCEPT !.op = "start", !.email = raw]
       IN
       IF email = <<>>
       THEN /\ last' = Redirect(req, "/login", "Email is required.")
            /\ UNCHANGED <<db, sessions, issued, verified>>
       ELSE
         LET found == FindUserByEmail(db, email)
             made == IF found = {}
                     THEN CreateUser(db, email, StoreNow(clock))
                     ELSE [db |-> db, ok |-> TRUE,
                           id |-> (CHOOSE u \in found : TRUE).id]
         IN
         IF ~made.ok
         THEN /\ db' = made.db
              /\ last' = ServerError(req)
              /\ UNCHANGED <<sessions, issued, verified>>
         ELSE
           LET uid == made.id
               d2 == DeleteExpiredLoginTokens(made.db, StoreNow(clock))
               d3 == DeleteLoginTokensForUser(d2, uid)
               token == NumberToString(rnd)
               expiresAt == AppNow(clock) + LoginTtlSeconds
               ins == CreateLoginToken(d3, uid, token, expiresAt, StoreNow(clock))
               req2 == [req EXCEPT !.uid = uid, !.code = token]
           IN
           IF ~ins.ok
           THEN /\ db' = ins.db
                /\ last' = ServerError(req2)
                /\ issued' = [issued EXCEPT ![uid] = <<>>]
                /\ UNCHANGED <<sessions, verified>>
           ELSE /\ db' = ins.db
                /\ sessions' = [sessions EXCEPT
                      ![s].pendingLogin = [userId |-> uid, email |-> email]]
                /\ last' = [Redirect(req2, "/login", "A sign-in code has been sent.")
                              EXCEPT !.ok = TRUE]
                /\ issued' = [issued EXCEPT
                      ![uid] = KeepLast2(Append(@, [code |-> token, at |-> clock]))]
                /\ verified' = [verified EXCEPT ![uid] = <<>>]
    /\ db'.seq["login_tokens"] <= MaxTokenId
    /\ UNCHANGED <<phase, clock, runs, ticks, origin, lookups, inflight>>

----------------------------------------------------------------------------
(* POST /login/verify (server.js lines 150-175) *)

(* mutant: an expired code is told apart from a wrong one *)
InvalidCodeResponseByCause(req) ==
    Redirect(req, "/login",
             IF req.cause = "expired" THEN "That code has expired."
             ELSE "That code is invalid.")

(* mutant: the pending login stays in the session *)
SignedInKeepPending(pendingLogin) ==
    [pendingLogin |-> pendingLogin,
     user |-> [id |-> pendingLogin.userId, email |-> pendingLogin.email]]

(* lines 171-172: req.session.user = {...}; delete req.session.pendingLogin *)
SignedIn(pendingLogin) ==
    [pendingLogin |-> NoLogin,
     user |-> [id |-> pendingLogin.userId, email |-> pendingLogin.email]]

(* mutant: a refused code burns the user's outstanding tokens *)
RefusedVerifyBurnsTokens(d, userId) == DeleteLoginTokensForUser(d, userId)

(* lines 165-168: the refused branch runs no statement on the store *)
RefusedVerify(d, userId) == d

(* lines 165-168: the response when the lookup finds no row *)
InvalidCodeResponse(req) ==
    Redirect(req, "/login", "That code is invalid or has expired.")

LoginVerify(s, raw) ==
    /\ phase = "ready"
    /\ LET code == Trim(raw)
           pendingLogin == sessions[s].pendingLogin
           req == [NoRequest EXCEPT !.op = "verify", !.code = code,
                                    !.uid = pendingLogin.userId]
       IN
       IF pendingLogin = NoLogin
       THEN /\ last' = Redirect([req EXCEPT !.cause = "nopending"], "/login",
                                "Request a sign-in code before verifying.")
            /\ UNCHANGED <<db, sessions, issued, verified>>
       ELSE IF code = <<>>
       THEN /\ last' = Redirect([req EXCEPT !.cause = "nocode"], "/login",
                                "Enter the sign-in code sent to your email.")
            /\ UNCHANGED <<db, sessions, issued, verified>>
       ELSE
         LET loginToken == FindLoginToken(db, pendingLogin.userId, code, StoreNow(clock))
             req2 == [req EXCEPT
                        !.cause = VerifyCause(db, pendingLogin.userId, code, clock),
                        !.hist = issued[pendingLogin.userId]]
         IN
         IF loginToken = {}
         THEN /\ db' = RefusedVerify(db, pendingLogin.userId)
              /\ last' = InvalidCodeResponse(req2)
              /\ UNCHANGED <<sessions, issued, verified>>
         ELSE /\ db' = DeleteLoginTokensForUser(db, pendingLogin.userId)
              /\ sessions' = [sessions EXCEPT ![s] = SignedIn(pendingLogin)]
              /\ last' = [Redirect(req2, "/", "Signed in successfully.")
                            EXCEPT !.ok = TRUE]
              /\ issued' = [issued EXCEPT ![pendingLogin.userId] = <<>>]
              /\ verified' = [verified EXCEPT
                    ![pendingLogin.userId] = KeepLast2(Append(@, code))]
    /\ UNCHANGED <<phase, clock, runs, ticks, origin, lookups, inflight>>

(* POST /logout (server.js lines 190-194): req.session.destroy *)
Logout(s) ==
    /\ phase = "ready"
    /\ sessions[s] # NewSession
    /\ sessions' = [sessions EXCEPT ![s] = NewSession]
    /\ last' = [Redirect(NoRequest, "/", "-") EXCEPT !.op = "logout"]
    /\ UNCHANGED <<phase, db, clock, issued, verified, runs, ticks, origin, lookups, inflight>>

(* time passes on the host between requests *)
Tick(step) ==
    /\ ticks < MaxTicks
    /\ clock' = clock + step
    /\ ticks' = ticks + 1
    /\ last' = NoRequest
    /\ UNCHANGED <<phase, db, sessions, issued, verified, runs, origin, lookups, inflight>>

----------------------------------------------------------------------------
(* The serving process on a fresh install *)

StartClocks == { 0, 500 }

Init ==
    /\ phase = "ready"
    /\ db = FreshDb
    /\ clock \in StartClocks
    /\ sessions = [s \in SessionIds |-> NewSession]
    /\ last = NoRequest
    /\ issued = [u \in UserIds |-> <<>>]
    /\ verified = [u \in UserIds |-> <<>>]
    /\ runs = 1
    /\ ticks = 0
    /\ origin = EmptyDb
    /\ lookups = [p \in Callers |-> <<>>]
    /\ inflight = [p \in Callers |-> NoCall]

Next ==
    \/ \E s \in SessionIds, raw \in EmailInputs, rnd \in RandomInts : LoginStart(s, raw, rnd)
    \/ \E s \in SessionIds, raw \in CodeInputs : LoginVerify(s, raw)
    \/ \E s \in SessionIds : Logout(s)
    \/ \E step \in ClockSteps : Tick(step)

Spec == Init /\ [][Next]_vars

----------------------------------------------------------------------------
(* Start-up against a data directory left by an earlier deployment *)

LegacyUsersTable ==
    Table({ Col("id", "INTEGER", 0), Col("email", "TEXT", 1),
            Col("password_hash", "TEXT", 1), Col("created_at", "DATETIME", 0) },
          "-")

LegacyCommentsTable ==
    Table({ Col("id", "INTEGER", 0), Col("rfc_id", "INTEGER", 1),
            Col("user_id", "INTEGER", 1), Col("body", "TEXT", 1),
            Col("created_at", "DATETIME", 0) },
          "users")

LegacyLoginTokensTable(type) ==
    Table({ Col("id", "INTEGER", 0), Col("user_id", "INTEGER", 1),
            Col("token", "TEXT", 1), Col("expires_at", type, 1),
            Col("created_at", "DATETIME", 0) },
          "users")

RfcsTable ==
    Table({ Col("id", "INTEGER", 0), Col("slug", "TEXT", 1),
            Col("title", "TEXT", 1), Col("content", "TEXT", 1) },
          "-")

ExpiresAtTypes == { "INTEGER", "DATETIME", "text" }

StoredUserIds == {1, 2}

EmailOf(u) == IF u = 1 THEN <<"a">> ELSE <<"b">>

(* rows an earlier deployment left: who has an account, a pending token, a  *)
(* comment; badTs: a token whose expiry text is no timestamp               *)
Populations ==
    { [users |-> us, owners |-> ow, authors |-> au, badTs |-> b] :
        us \in {{}, {1}, {1, 2}}, ow \in SUBSET StoredUserIds,
        au \in SUBSET StoredUserIds, b \in BOOLEAN }

LegacyDb(legacyUsers, legacyComments, rfcs, expType, pop) ==
    [ schema |-> [t \in TableNames |->
                    CASE t = "users" ->
                           IF legacyUsers THEN LegacyUsersTable ELSE UsersTable
                      [] t = "comments" ->
                           IF legacyComments THEN LegacyCommentsTable ELSE CommentsTable
                      [] t = "login_tokens" -> LegacyLoginTokensTable(expType)
                      [] t = "rfcs" -> IF rfcs THEN RfcsTable ELSE NoTable
                      [] OTHER -> NoTable],
      rows |-> [t \in TableNames |->
                    CASE t = "users" ->
                           { [id |-> u, email |-> EmailOf(u),
                              password_hash |-> IF legacyUsers THEN "hash" ELSE "NULL",
                              created_at |-> 0] : u \in pop.users }
                      [] t = "comments" ->
                           IF legacyComments
                           THEN { [id |-> u, rfc_id |-> 1, user_id |-> u,
                                   body |-> <<"h", "i">>, created_at |-> 0] :
                                  u \in pop.authors }
                           ELSE { [id |-> u, rfc_slug |-> "rfc-1", user_id |-> u,
                                   body |-> <<"h", "i">>, created_at |-> 0] :
                                  u \in pop.authors }
                      [] t = "login_tokens" ->
                           { [id |-> u, user_id |-> u,
                              token |-> NumberToString(RandIntMin + u - 1),
                              expires_at |->
                                 IF expType = "INTEGER" THEN LoginTtlSeconds + u
                                 ELSE IF pop.badTs THEN <<>>
                                 ELSE <<0, 0, 10, u>>,
                              created_at |-> 0] : u \in pop.owners }
                      [] t = "rfcs" -> IF rfcs THEN { [id |-> 1] } ELSE {}
                      [] OTHER -> {}],
      seq |-> [t \in TableNames |->
                    CASE t = "users" -> Max(pop.users)
                      [] t = "comments" -> Max(pop.authors)
                      [] t = "login_tokens" -> Max(pop.owners)
                      [] t = "rfcs" -> IF rfcs THEN 1 ELSE 0
                      [] OTHER -> 0] ]

(* the process is started again on the same data directory; the in-memory   *)
(* session store starts empty                                              *)
Restart ==
    /\ phase = "ready"
    /\ runs < MaxRuns
    /\ phase' = "create"
    /\ sessions' = [s \in SessionIds |-> NewSession]
    /\ last' = NoRequest
    /\ UNCHANGED <<db, clock, issued, verified, runs, ticks, origin, lookups, inflight>>

InitMigrate ==
    /\ phase = "create"
    /\ \/ db = EmptyDb
       \/ \E lu, lc, r \in BOOLEAN, ty \in ExpiresAtTypes, pop \in Populations :
             /\ pop.owners \subseteq pop.users
             /\ pop.authors \subseteq pop.users
             /\ pop.badTs => (ty # "INTEGER" /\ pop.owners # {})
             /\ db = LegacyDb(lu, lc, r, ty, pop)
    /\ origin = db
    /\ lookups = [p \in Callers |-> <<>>]
    /\ inflight = [p \in Callers |-> NoCall]
    /\ clock = 0
    /\ sessions = [s \in SessionIds |-> NewSession]
    /\ last = NoRequest
    /\ issued = [u \in UserIds |-> <<>>]
    /\ verified = [u \in UserIds |-> <<>>]
    /\ runs = 0
    /\ ticks = 0

NextMigrate ==
    \/ StartupCreateTables
    \/ StartupComments
    \/ StartupRfcs
    \/ StartupLoginTokens
    \/ StartupUsers
    \/ Restart

SpecMigrate == InitMigrate /\ [][NextMigrate]_vars

----------------------------------------------------------------------------
(* Properties of the login flow, checked under Spec *)

TokensOf(u) == { r \in db.rows["login_tokens"] : r.user_id = u }

WellFormed(raw) == Trim(raw) # <<>>

(* C1: after every requestLogin for a well-formed email, exactly one token  *)
(* row exists for the resolved user and its code is the code of that call. *)
C1_OneTokenAfterIssue ==
    (last.op = "start" /\ last.uid # 0) =>
        /\ Cardinality(TokensOf(last.uid)) = 1
        /\ \A r \in TokensOf(last.uid) : r.token = last.code

(* C2: between two issues for a user at most one verify succeeds, so a     *)
(* code that has verified once does not verify again.                      *)
C2_SingleUse == \A u \in UserIds : Len(verified[u]) <= 1

(* C2 witness: a code that had verified was presented again by a session   *)
(* still awaiting it, and was refused.                                     *)
C2_ReplayRefused ==
    /\ last.op = "verify" /\ ~last.ok /\ last.uid # 0
    /\ verified[last.uid] = <<last.code>>
    /\ last.cause = "none"

(* C3 as stated: after two requests in a row for one user, a verify that   *)
(* presents the first issued code fails.                                   *)
C3_FirstCodeFails ==
    (last.op = "verify" /\ Len(last.hist) = 2 /\ last.code = last.hist[1].code)
        => ~last.ok

(* C3 amended: a verify succeeds only with the most recently issued code;  *)
(* the first of two codes fails whenever it differs from the second.       *)
C3_OnlyLatestCodeVerifies ==
    /\ (last.op = "verify" /\ last.ok) =>
          (last.hist # <<>> /\ last.code = Latest(last.hist).code)
    /\ (last.op = "verify" /\ Len(last.hist) = 2
          /\ last.code = last.hist[1].code
          /\ last.hist[1].code # last.hist[2].code) => ~last.ok

(* C3 witness: the first of two different codes was presented while the    *)
(* second was live, and was refused.                                       *)
C3_SupersededRefused ==
    /\ last.op = "verify" /\ ~last.ok /\ Len(last.hist) = 2
    /\ last.code = last.hist[1].code
    /\ last.hist[1].code # last.hist[2].code
    /\ last.cause = "wrong"
    /\ clock < last.hist[1].at + LoginTtlSeconds * MsPerSecond
    /\ FindLoginToken(db, last.uid, last.hist[2].code, StoreNow(clock)) # {}

(* C4: a verify whose matching token row has expires_at at or before the   *)
(* current instant fails.                                                  *)
C4_ExpiredCodeFails ==
    (last.op = "verify" /\ last.cause = "expired") => ~last.ok

(* C4 witness: the refused code's row is still in the table.               *)
C4_ExpiredRowStillStored ==
    /\ last.op = "verify" /\ last.cause = "expired" /\ ~last.ok
    /\ \E r \in TokensOf(last.uid) :
          r.token = last.code /\ r.expires_at * MsPerSecond <= clock

(* C5 as stated: the latest code of a user, presented less than ten        *)
(* minutes after the instant it was issued, verifies.                      *)
C5_VerifiesWithinTenMinutes ==
    (last.op = "verify" /\ last.hist # <<>>
       /\ last.code = Latest(last.hist).code
       /\ clock < Latest(last.hist).at + LoginTtlSeconds * MsPerSecond)
        => last.ok

(* C5 amended: the latest code verifies while the clock's whole second is  *)
(* less than the issue instant's whole second plus 600.                    *)
C5_VerifiesWithinWholeSeconds ==
    (last.op = "verify" /\ last.hist # <<>>
       /\ last.code = Latest(last.hist).code
       /\ clock \div MsPerSecond
            < (Latest(last.hist).at \div MsPerSecond) + LoginTtlSeconds)
        => last.ok

(* C5 witness: a code verified more than 599 seconds after its issue.      *)
C5_VerifiedLate ==
    /\ last.op = "verify" /\ last.ok
    /\ clock >= Latest(last.hist).at + (LoginTtlSeconds - 1) * MsPerSecond

(* C6: requestLogin with a well-formed email always succeeds.              *)
C6_RequestLoginNeverFails ==
    (last.op = "start" /\ WellFormed(last.email)) =>
        (last.ok /\ last.status = 302)

(* C7: user rows hold normalized emails, one row per email, and every      *)
(* request for a variant of an email resolves to that email's row.         *)
C7_OneUserPerNormalizedEmail ==
    LET users == db.rows["users"] IN
    /\ \A u1, u2 \in users : u1.email = u2.email => u1 = u2
    /\ \A u1, u2 \in users : u1.id = u2.id => u1 = u2
    /\ \A u \in users : ToLowerCase(Trim(u.email)) = u.email
    /\ Cardinality(users) <= Cardinality(Emails)
    /\ (last.op = "start" /\ WellFormed(last.email)) =>
          \E u \in users :
             /\ u.email = ToLowerCase(Trim(last.email))
             /\ last.uid \in {0, u.id}
    /\ \A s \in SessionIds :
          sessions[s].pendingLogin # NoLogin =>
             \E u \in users : /\ u.id = sessions[s].pendingLogin.userId
                              /\ u.email = sessions[s].pendingLogin.email

(* C7 witness: a padded upper-case variant resolved to the one row of its  *)
(* email, which an earlier request had created.                            *)
C7_VariantResolved ==
    /\ last.op = "start" /\ last.ok
    /\ last.email = <<" ", "A", " ">>
    /\ db.rows["users"] # {}
    /\ \A u \in db.rows["users"] : u.email = <<"a">> /\ u.id = last.uid
    /\ db.seq["login_tokens"] = 2

(* C8: a verify that reaches the lookup and fails answers the same whether *)
(* the code is wrong, expired, or the user has no token.                   *)
C8_UniformFailure ==
    (last.op = "verify" /\ last.cause \in {"wrong", "expired", "none"}) =>
        /\ ~last.ok
        /\ last.status = 302
        /\ last.redirect = "/login"
        /\ last.flash = "That code is invalid or has expired."

(* C8 witness: the refusal when the user has no token row at all.          *)
C8_NoTokenRefused ==
    /\ last.op = "verify" /\ last.cause = "none" /\ ~last.ok
    /\ TokensOf(last.uid) = {}
    /\ last.flash = "That code is invalid or has expired."

----------------------------------------------------------------------------
(* Properties of the start-up block, checked under SpecMigrate *)

Starting == phase \in {"create", "comments", "rfcs", "login_tokens", "users"}

(* C9: once one run has completed, every step of a later run leaves the    *)
(* schema and the rows as they are and does not fail.                      *)
C9_SecondRunChangesNothing ==
    [][(runs >= 1 /\ Starting) => (db' = db /\ phase' # "failed")]_vars

(* C9 witness: a second run completed on a store that holds rows.          *)
C9_SecondRunDone ==
    /\ phase = "ready" /\ runs = 2
    /\ db.rows["users"] # {} /\ db.rows["login_tokens"] # {}

ColumnNames(t) == { c.name : c \in db.schema[t].cols }

TargetShape ==
    /\ db.schema["users"].exists
    /\ db.schema["users"].cols = UsersTable.cols
    /\ ~HasNotNull(db, "users", "password_hash")
    /\ db.schema["comments"].exists
    /\ db.schema["comments"].cols = CommentsTable.cols
    /\ "rfc_slug" \in ColumnNames("comments")
    /\ "rfc_id" \notin ColumnNames("comments")
    /\ db.schema["login_tokens"].exists
    /\ \A c \in db.schema["login_tokens"].cols :
          c.name = "expires_at" => c.type = "INTEGER"
    /\ ColumnNames("login_tokens") = { c.name : c \in LoginTokensTable.cols }
    /\ \A t \in {"rfcs", "users_old", "comments_old", "login_tokens_old"} :
          ~db.schema[t].exists

(* C10: whenever the start-up block has returned, the store has the target *)
(* shape, whatever legacy shapes it started from.                          *)
C10_TargetShapeOnReturn == phase = "ready" => TargetShape

(* C10 witness: the block returned on a store that began with all four     *)
(* legacy shapes.                                                          *)
C10_AllLegacyMigrated ==
    /\ phase = "ready" /\ runs = 1
    /\ origin.schema["users"] = LegacyUsersTable
    /\ origin.schema["comments"] = LegacyCommentsTable
    /\ origin.schema["rfcs"].exists
    /\ origin.schema["login_tokens"] = LegacyLoginTokensTable("DATETIME")
    /\ db.rows["users"] # {}

(* the rows login_tokens held when the first start opened the store, and  *)
(* whether they are textual timestamps the rewrite has to convert        *)
OriginTokens == origin.rows["login_tokens"]

TextualExpiry ==
    /\ HasLegacyExpiresAt(origin)
    /\ \A r \in OriginTokens : Parseable(r.expires_at)

Instants == { 0, LoginTtlSeconds, LoginTtlSeconds + 1, LoginTtlSeconds + 2 }

(* C11: after the start-up block has returned on a store whose            *)
(* login_tokens.expires_at held textual timestamps, every original token   *)
(* row is present with its user_id, its token and the epoch seconds of its *)
(* timestamp, and the lookup accepts it at exactly the instants before it. *)
C11_TokensSurviveStartup ==
    (phase = "ready" /\ TextualExpiry) =>
        /\ Cardinality(db.rows["login_tokens"]) = Cardinality(OriginTokens)
        /\ \A r \in OriginTokens :
              /\ \E n \in db.rows["login_tokens"] :
                    /\ n.user_id = r.user_id
                    /\ n.token = r.token
                    /\ n.expires_at = StrftimeEpoch(r.expires_at)
              /\ \A now \in Instants :
                    (FindLoginToken(db, r.user_id, r.token, now) # {})
                        <=> (StrftimeEpoch(r.expires_at) > now)

(* C12: after the start-up block has returned on a store whose users table *)
(* had password_hash NOT NULL, password_hash is nullable and the user rows *)
(* are the rows the store held before.                                     *)
C12_UserRowsUnchanged ==
    (phase = "ready" /\ HasNotNullPasswordHash(origin)) =>
        /\ ~HasNotNullPasswordHash(db)
        /\ db.schema["users"] = UsersTable
        /\ db.rows["users"] = origin.rows["users"]

(* C12 witness: two accounts with password hashes went through the rewrite *)
C12_TwoUsersMigrated ==
    /\ phase = "ready" /\ runs = 1
    /\ HasNotNullPasswordHash(origin)
    /\ Cardinality(db.rows["users"]) = 2
    /\ \A u \in db.rows["users"] : u.password_hash = "hash"

----------------------------------------------------------------------------
(* Callers of the exports of db.js: each call is one statement; several    *)
(* processes may have app.db open, so calls of different callers interleave *)

(* findUserByEmail(email) *)
CallFindUserByEmail(p, email) ==
    /\ phase = "ready"
    /\ lookups[p] = <<>>
    /\ LET found == FindUserByEmail(db, email) IN
       /\ lookups' = [lookups EXCEPT ![p] = IF found = {} THEN email ELSE <<>>]
       /\ last' = [NoRequest EXCEPT
                     !.op = "findUserByEmail", !.email = email,
                     !.ok = (found # {}),
                     !.uid = IF found = {} THEN 0 ELSE (CHOOSE u \in found : TRUE).id]
    /\ UNCHANGED <<phase, db, clock, sessions, issued, verified, runs, ticks, origin, inflight>>

(* createUser({ email }) by a caller whose lookup found no row *)
CallCreateUser(p) ==
    /\ phase = "ready"
    /\ lookups[p] # <<>>
    /\ LET r == CreateUser(db, lookups[p], StoreNow(clock)) IN
       /\ db' = r.db
       /\ last' = [NoRequest EXCEPT
                     !.op = "createUser", !.email = lookups[p],
                     !.ok = r.ok, !.uid = r.id,
                     !.cause = IF r.ok THEN "-" ELSE "SQLITE_CONSTRAINT"]
    /\ lookups' = [lookups EXCEPT ![p] = <<>>]
    /\ UNCHANGED <<phase, clock, sessions, issued, verified, runs, ticks, origin, inflight>>

(* createComment({ rfcSlug, userId, body }) *)
CallCreateComment(rfcSlug, userId, body) ==
    /\ phase = "ready"
    /\ db.seq["comments"] < MaxComments
    /\ LET r == CreateComment(db, rfcSlug, userId, body, StoreNow(clock)) IN
       /\ db' = r.db
       /\ last' = [NoRequest EXCEPT
                     !.op = "createComment", !.slug = rfcSlug, !.uid = userId,
                     !.body = body, !.ok = r.ok,
                     !.cause = IF r.ok THEN "-" ELSE "SQLITE_CONSTRAINT"]
    /\ UNCHANGED <<phase, clock, sessions, issued, verified, runs, ticks, origin, lookups, inflight>>

(* getCommentsForRfc(rfcSlug) *)
CallGetCommentsForRfc(rfcSlug) ==
    /\ phase = "ready"
    /\ last' = [NoRequest EXCEPT
                  !.op = "getCommentsForRfc", !.slug = rfcSlug,
                  !.rows = GetCommentsForRfc(db, rfcSlug), !.ok = TRUE]
    /\ UNCHANGED <<phase, db, clock, sessions, issued, verified, runs, ticks, origin, lookups, inflight>>

(* server.js lines 67-70: commentCounts.reduce(... acc[slug] = count ...) *)
CountsBySlug(commentCounts) ==
    [ s \in { r.slug : r \in commentCounts } |->
        (CHOOSE r \in commentCounts : r.slug = s).count ]

(* server.js line 74: countsBySlug[rfc.slug] ?? 0 *)
CommentCount(countsBySlug, slug) ==
    IF slug \in DOMAIN countsBySlug THEN countsBySlug[slug] ELSE 0

(* GET / (server.js lines 64-78) *)
GetIndex ==
    /\ phase = "ready"
    /\ LET commentCounts == GetCommentCounts(db)
           countsBySlug == CountsBySlug(commentCounts)
       IN last' = [NoRequest EXCEPT
                     !.op = "index", !.ok = TRUE, !.status = 200,
                     !.counts = commentCounts,
                     !.tally = [d \in Docs |-> CommentCount(countsBySlug, d)]]
    /\ UNCHANGED <<phase, db, clock, sessions, issued, verified, runs, ticks, origin, lookups, inflight>>

NextStore ==
    \/ \E p \in Callers, email \in Emails : CallFindUserByEmail(p, email)
    \/ \E p \in Callers : CallCreateUser(p)
    \/ \E rfcSlug \in SlugInputs, userId \in UserIds :
          CallCreateComment(rfcSlug, userId, <<"h">>)
    \/ \E rfcSlug \in SlugInputs : CallGetCommentsForRfc(rfcSlug)
    \/ GetIndex
    \/ \E step \in ClockSteps : Tick(step)

SpecStore == Init /\ [][NextStore]_vars

----------------------------------------------------------------------------
(* The comment routes of server.js *)

(* getRfcBySlug(slug): the document exists in docs/rfc *)
GetRfcBySlug(slug) == slug \in Docs

NotFound(r) == [r EXCEPT !.status = 404]

(* mutant: the body is stored as submitted *)
CommentBodyRaw(raw) == raw

(* server.js line 99: req.body.body?.trim() *)
CommentBody(raw) == Trim(raw)

(* POST /rfc/:slug/comments (server.js lines 92-108), behind requireAuth   *)
(* (lines 49-55)                                                           *)
(* mutant: the author is taken from the pending login when there is one *)
CommentAuthorPending(ses) ==
    IF ses.pendingLogin # NoLogin THEN ses.pendingLogin.userId ELSE ses.user.id

(* line 105: userId: req.session.user.id *)
CommentAuthor(ses) == ses.user.id

PostComment(s, slug, raw) ==
    /\ phase = "ready"
    /\ db.seq["comments"] < MaxComments
    /\ LET req == [NoRequest EXCEPT !.op = "comment", !.slug = slug, !.body = raw,
                                    !.uid = sessions[s].user.id]
           body == CommentBody(raw)
       IN
       IF sessions[s].user = NoUser
       THEN /\ last' = Redirect(req, "/login", "You must be signed in to do that.")
            /\ db' = db
       ELSE IF ~GetRfcBySlug(slug)
       THEN /\ last' = NotFound(req)
            /\ db' = db
       ELSE IF body = <<>>
       THEN /\ last' = Redirect(req, "/rfc/:slug", "Comment cannot be empty.")
            /\ db' = db
       ELSE LET r == CreateComment(db, slug, CommentAuthor(sessions[s]), body, StoreNow(clock)) IN
            /\ db' = r.db
            /\ last' = IF r.ok
                       THEN [Redirect(req, "/rfc/:slug", "Comment posted successfully.")
                               EXCEPT !.ok = TRUE]
                       ELSE ServerError(req)
    /\ UNCHANGED <<phase, clock, sessions, issued, verified, runs, ticks, origin, lookups, inflight>>

(* GET /rfc/:slug (server.js lines 80-90) *)
GetRfc(slug) ==
    /\ phase = "ready"
    /\ last' = IF ~GetRfcBySlug(slug)
               THEN NotFound([NoRequest EXCEPT !.op = "rfc", !.slug = slug])
               ELSE [NoRequest EXCEPT
                       !.op = "rfc", !.slug = slug, !.ok = TRUE, !.status = 200,
                       !.rows = GetCommentsForRfc(db, slug)]
    /\ UNCHANGED <<phase, db, clock, sessions, issued, verified, runs, ticks, origin, lookups, inflight>>

(* the inputs of the login routes in the runs that exercise the comment routes *)
CommentEmails == { <<"a">>, <<"B">> }
CommentCodes == { RandIntMin }

NextComments ==
    \/ \E s \in SessionIds, raw \in CommentEmails, rnd \in CommentCodes :
          LoginStart(s, raw, rnd)
    \/ \E s \in SessionIds, rnd \in CommentCodes : LoginVerify(s, NumberToString(rnd))
    \/ \E s \in SessionIds, slug \in SlugInputs, raw \in BodyInputs :
          PostComment(s, slug, raw)
    \/ \E slug \in SlugInputs : GetRfc(slug)
    \/ GetIndex
    \/ \E step \in ClockSteps : Tick(step)

SpecComments == Init /\ [][NextComments]_vars

----------------------------------------------------------------------------
(* Properties of the comment store, checked under SpecStore *)

CommentsOf(rfcSlug) == { c \in db.rows["comments"] : c.rfc_slug = rfcSlug }

UserIdsStored == { u.id : u \in db.rows["users"] }

(* C15: createComment with a user id that no user row has throws and       *)
(* leaves the store as it was; every stored comment's user_id is the id of *)
(* a stored user.                                                          *)
C15_UnknownUserRejected ==
    /\ [](\A c \in db.rows["comments"] : c.user_id \in UserIdsStored)
    /\ [][(last'.op = "createComment" /\ last'.uid \notin UserIdsStored)
            => (~last'.ok /\ last'.cause = "SQLITE_CONSTRAINT" /\ db' = db)]_vars

(* C15 witness: an insert for an id without a row was refused while another *)
(* user and a comment of theirs were stored.                               *)
C15_RefusedWithOtherUserStored ==
    /\ last.op = "createComment" /\ ~last.ok
    /\ last.uid \notin UserIdsStored
    /\ UserIdsStored # {}
    /\ db.rows["comments"] # {}

(* C16: the counts query returns one row per slug that has a comment, its  *)
(* count being the number of rows stored for that slug and the length of   *)
(* that slug's listing; the index page shows that count, and 0 for a       *)
(* document without a row.                                                 *)
C16_CountsMatchRows ==
    (last.op = "index") =>
        /\ { r.slug : r \in last.counts } = { c.rfc_slug : c \in db.rows["comments"] }
        /\ \A r1, r2 \in last.counts : r1.slug = r2.slug => r1 = r2
        /\ \A r \in last.counts :
              /\ r.count = Cardinality(CommentsOf(r.slug))
              /\ r.count = Len(GetCommentsForRfc(db, r.slug))
              /\ r.count >= 1
        /\ \A d \in Docs : last.tally[d] = Cardinality(CommentsOf(d))

(* C16 witness: two slugs with different counts, one of them no document,  *)
(* and a document without comments shown with 0.                           *)
C16_TwoSlugsCounted ==
    /\ last.op = "index"
    /\ [slug |-> "rfc-1", count |-> 2] \in last.counts
    /\ [slug |-> "draft", count |-> 1] \in last.counts
    /\ last.tally["rfc-1"] = 2 /\ last.tally["rfc-2"] = 0

(* C18: createUser for an email that has a row throws the constraint error *)
(* and leaves the store as it was, also when the caller's own lookup had   *)
(* found no row because another caller inserted in between.                *)
C18_DuplicateEmailRejected ==
    [][(last'.op = "createUser"
          /\ \E u \in db.rows["users"] : u.email = last'.email)
        => (~last'.ok /\ last'.cause = "SQLITE_CONSTRAINT" /\ db' = db)]_vars

(* C18 witness: the second of two callers that both found no row was       *)
(* refused; the email has the one row the first caller inserted.           *)
C18_RaceLoserRefused ==
    /\ last.op = "createUser" /\ ~last.ok
    /\ Cardinality({ u \in db.rows["users"] : u.email = last.email }) = 1
    /\ db.seq["users"] = 1

----------------------------------------------------------------------------
(* Properties of the comment routes, checked under SpecComments *)

(* C14: a comment request whose body is empty after trimming stores no row *)
(* and is not accepted; an accepted request stores one row whose body is   *)
(* the trimmed text; no stored comment has an empty or untrimmed body.     *)
C14_NoEmptyBodyStored ==
    /\ [](\A c \in db.rows["comments"] : c.body # <<>> /\ Trim(c.body) = c.body)
    /\ [][(last'.op = "comment" /\ Trim(last'.body) = <<>>)
            => (db' = db /\ ~last'.ok)]_vars
    /\ [][(last'.op = "comment" /\ last'.ok)
            => \E c \in db'.rows["comments"] :
                  /\ db'.rows["comments"] = db.rows["comments"] \cup {c}
                  /\ c \notin db.rows["comments"]
                  /\ c.body = Trim(last'.body)
                  /\ c.rfc_slug = last'.slug]_vars

(* C14 witness: a signed-in session's blank body was refused with the      *)
(* validation message, after a padded body had been stored trimmed.        *)
C14_BlankRefusedAfterTrimmedStored ==
    /\ last.op = "comment" /\ last.body = <<" ">> /\ last.uid # 0
    /\ last.flash = "Comment cannot be empty."
    /\ \E c \in db.rows["comments"] : c.body = <<"h">>

(* C19: no step of the login, comment or read routes removes or changes a  *)
(* stored comment: every row stored before a step is stored, equal in all  *)
(* columns, after it, and no id is used twice.                             *)
C19_CommentsAppendOnly ==
    /\ [][db.rows["comments"] \subseteq db'.rows["comments"]]_vars
    /\ [](\A c1, c2 \in db.rows["comments"] : c1.id = c2.id => c1 = c2)

(* C19 witness: the author of a stored comment signed in again, which ran  *)
(* the purge and both token deletes, and the comment is still stored.      *)
C19_CommentKeptAcrossLogin ==
    /\ last.op = "verify" /\ last.ok
    /\ \E c \in db.rows["comments"] : c.user_id = last.uid
    /\ db.seq["login_tokens"] = 2

----------------------------------------------------------------------------
(* Properties of the session protocol, checked under Spec *)

AwaitingCode(ses) == ses.pendingLogin # NoLogin
Authenticated(ses) == ses.user # NoUser

(* C17: a successful requestLogin puts its session in AwaitingCode; a      *)
(* failed verify changes no session; a verify from a session without a     *)
(* pending login does not change that session's user; a successful verify  *)
(* sets one awaiting session's user to its pending login's identity and    *)
(* clears that pending login.                                              *)
C17_SessionProtocol ==
    /\ [][(last'.op = "start" /\ last'.ok) =>
            \E s \in SessionIds :
               /\ AwaitingCode(sessions'[s])
               /\ sessions'[s].pendingLogin.userId = last'.uid
               /\ sessions'[s].user = sessions[s].user
               /\ \A t \in SessionIds \ {s} : sessions'[t] = sessions[t]]_vars
    /\ [][(last'.op = "verify" /\ ~last'.ok) => sessions' = sessions]_vars
    /\ [][last'.op = "verify" =>
            \A s \in SessionIds :
               ~AwaitingCode(sessions[s]) => sessions'[s] = sessions[s]]_vars
    /\ [][(last'.op = "verify" /\ last'.ok) =>
            \E s \in SessionIds :
               /\ AwaitingCode(sessions[s])
               /\ Authenticated(sessions'[s])
               /\ sessions'[s].user.id = sessions[s].pendingLogin.userId
               /\ sessions'[s].user.email = sessions[s].pendingLogin.email
               /\ ~AwaitingCode(sessions'[s])
               /\ \A t \in SessionIds \ {s} : sessions'[t] = sessions[t]]_vars

(* C17 witness: a session is still awaiting its code after a refused       *)
(* verify, while the other session has signed in and awaits nothing.       *)
C17_RefusedStaysAwaiting ==
    /\ last.op = "verify" /\ ~last.ok /\ last.cause = "wrong"
    /\ \E s, t \in SessionIds :
          /\ AwaitingCode(sessions[s]) /\ ~Authenticated(sessions[s])
          /\ sessions[s].pendingLogin.userId = last.uid
          /\ Authenticated(sessions[t]) /\ ~AwaitingCode(sessions[t])

(* C20: a step gives a session the authenticated user U only if it is a    *)
(* successful verify by a session awaiting U, presenting the code of a     *)
(* stored token of U that has expires_at after the store's current second  *)
(* and is the code most recently issued to U and not yet consumed.         *)
C20_AuthenticatedOnlyByOwnLiveCode ==
    [][\A s \in SessionIds :
          (sessions'[s].user # sessions[s].user /\ Authenticated(sessions'[s])) =>
             LET U == sessions'[s].user.id IN
             /\ last'.op = "verify" /\ last'.ok /\ last'.uid = U
             /\ sessions[s].pendingLogin.userId = U
             /\ \E r \in db.rows["login_tokens"] :
                   /\ r.user_id = U
                   /\ r.token = last'.code
                   /\ r.expires_at > clock \div MsPerSecond
             /\ issued[U] # <<>>
             /\ last'.code = Latest(issued[U]).code
             /\ verified[U] = <<>>
             /\ \E u \in db.rows["users"] :
                   u.id = U /\ u.email = sessions'[s].user.email]_vars

(* C20 witness: a session signed in as one user while a live token of the  *)
(* other user, with a different code, was stored.                          *)
C20_SignedInBesideOtherToken ==
    /\ last.op = "verify" /\ last.ok
    /\ \E s \in SessionIds : sessions[s].user.id = last.uid
    /\ \E r \in db.rows["login_tokens"] :
          /\ r.user_id # last.uid
          /\ r.token # last.code
          /\ r.expires_at > clock \div MsPerSecond

----------------------------------------------------------------------------
(* Further properties of the start-up block, checked under SpecMigrate *)

DependentTables == { "comments", "login_tokens" }

(* C27: the step that rewrites a users table with NOT NULL password_hash   *)
(* keeps every comment and login token row, and each of them references a  *)
(* stored user of the same id afterwards.                                  *)
C27_DependentsSurviveUsersRewrite ==
    [][(phase = "users" /\ HasNotNullPasswordHash(db) /\ phase' = "ready") =>
          \A t \in DependentTables :
             /\ db'.rows[t] = db.rows[t]
             /\ \A r \in db'.rows[t] : ForeignKeyOk(db', t, r.user_id)]_vars

(* C25: a start-up step in which a statement fails leaves the store as it  *)
(* was before the step, so the legacy table is still there, under its own  *)
(* name and with its rows, for a later run.                                *)
C25_FailedRewriteChangesNothing ==
    [][phase' = "failed" => db' = db]_vars

CheckOrder ==
    { <<"create", "comments">>, <<"comments", "rfcs">>, <<"rfcs", "login_tokens">>,
      <<"login_tokens", "users">>, <<"users", "ready">>, <<"ready", "create">> }

(* C23 as stated: the users check comes first, so the comments, rfcs and   *)
(* tokens checks run on a store whose users table is already normalized.   *)
C23_UsersCheckedFirst ==
    phase \in {"comments", "rfcs", "login_tokens"} => ~HasNotNullPasswordHash(db)

(* C23 amended: the checks run in the order comments, rfcs drop, tokens,   *)
(* users; the users check is the last one and finds the three others done. *)
C23_UsersCheckedLast ==
    /\ [][phase' # phase => (<<phase, phase'>> \in CheckOrder \/ phase' = "failed")]_vars
    /\ [](phase = "users" =>
            /\ ~HasLegacyRfcIdColumn(db)
            /\ ~HasRfcsTable(db)
            /\ ~HasLegacyExpiresAt(db))

(* C23 witness: the users check is about to run on a users table still in  *)
(* its legacy shape, the three other legacy shapes having been rewritten.  *)
C23_UsersStillLegacyAtLastCheck ==
    /\ phase = "users" /\ runs = 0
    /\ HasNotNullPasswordHash(db)
    /\ HasLegacyRfcIdColumn(origin) /\ HasRfcsTable(origin) /\ HasLegacyExpiresAt(origin)

----------------------------------------------------------------------------
(* Further properties of the login flow, checked under Spec *)

(* the store's current second and the seconds around every stored expiry *)
StoreInstants ==
    { StoreNow(clock) }
    \cup UNION { { r.expires_at - 1, r.expires_at, r.expires_at + 1 } :
                   r \in db.rows["login_tokens"] }

AcceptedAt(r, now) == r \in FindLoginToken(db, r.user_id, r.token, now)

PurgedAt(r, now) == r \notin DeleteExpiredLoginTokens(db, now).rows["login_tokens"]

(* C28: at every instant each stored token is either accepted by the       *)
(* lookup or removed by the purge, and never both.                         *)
C28_AcceptedOrPurged ==
    \A r \in db.rows["login_tokens"] : \A now \in StoreInstants :
        /\ AcceptedAt(r, now) \/ PurgedAt(r, now)
        /\ ~(AcceptedAt(r, now) /\ PurgedAt(r, now))
        /\ AcceptedAt(r, now) <=> (r.expires_at > now)

(* C28 witness: the store's clock stands exactly at the expiry second of a *)
(* stored token: the purge would remove it and the lookup does not accept  *)
(* it, while one second earlier the lookup accepts it.                     *)
C28_TokenAtItsExpirySecond ==
    \E r \in db.rows["login_tokens"] :
        /\ r.expires_at = StoreNow(clock)
        /\ PurgedAt(r, StoreNow(clock)) /\ ~AcceptedAt(r, StoreNow(clock))
        /\ AcceptedAt(r, StoreNow(clock) - 1) /\ ~PurgedAt(r, StoreNow(clock) - 1)

----------------------------------------------------------------------------
(* A refused verify *)

AcceptedCodes(d, userId) ==
    { code \in { Trim(raw) : raw \in CodeInputs } :
         FindLoginToken(d, userId, code, StoreNow(clock)) # {} }

(* C29: a verify that does not succeed leaves the users, login_tokens and  *)
(* comments tables and every session as they were, so the codes accepted   *)
(* for its user are the same after it as before it, and a verify that      *)
(* follows a refused one and presents the live code of its user succeeds.  *)
C29_RefusedVerifyChangesNothing ==
    /\ [][(last'.op = "verify" /\ ~last'.ok) =>
            /\ \A t \in TableNames : db'.rows[t] = db.rows[t]
            /\ db' = db
            /\ \A s \in SessionIds :
                  /\ sessions'[s].pendingLogin = sessions[s].pendingLogin
                  /\ sessions'[s].user = sessions[s].user
            /\ \A u \in UserIds : AcceptedCodes(db', u) = AcceptedCodes(db, u)]_vars
    /\ [][(/\ last.op = "verify" /\ ~last.ok
           /\ last'.op = "verify" /\ last'.uid = last.uid
           /\ last'.code \in AcceptedCodes(db, last.uid)) => last'.ok]_vars

(* C29 witness: a verify with a wrong code has just been refused while the *)
(* code issued to its user is still stored, unexpired and accepted, and    *)
(* the session that presented it still awaits that user's code.            *)
C29_RefusedWhileCodeLive ==
    /\ last.op = "verify" /\ ~last.ok /\ last.cause = "wrong"
    /\ Len(issued[last.uid]) > 0
    /\ Latest(issued[last.uid]).code \in AcceptedCodes(db, last.uid)
    /\ last.code \notin AcceptedCodes(db, last.uid)
    /\ \E s \in SessionIds :
          sessions[s].pendingLogin.userId = last.uid /\ ~Authenticated(sessions[s])

----------------------------------------------------------------------------
(* A requestLogin whose insert is rejected *)

(* C26: a requestLogin that fails after the user lookup leaves every       *)
(* unexpired token of its user stored and accepted by the lookup, and      *)
(* leaves every session's pending login as it was.                         *)
C26_FailedRequestKeepsToken ==
    [][(last'.op = "start" /\ last'.status = 500 /\ last'.uid # 0) =>
          /\ \A r \in db.rows["login_tokens"] :
                (r.user_id = last'.uid /\ r.expires_at > StoreNow(clock)) =>
                   /\ r \in db'.rows["login_tokens"]
                   /\ FindLoginToken(db', r.user_id, r.token, StoreNow(clock)) # {}
          /\ \A s \in SessionIds :
                sessions'[s].pendingLogin = sessions[s].pendingLogin]_vars

----------------------------------------------------------------------------
(* requestLogin with and without the purge *)

(* whether POST /login/start answers with its redirect when line 132, the  *)
(* purge of expired tokens, is left out: lines 126-131 and 133-137 only    *)
StartSucceedsWithoutPurge(d, raw, token, ms) ==
    LET email == NormalizeEmail(raw)
        found == FindUserByEmail(d, email)
        made == IF found = {}
                THEN CreateUser(d, email, StoreNow(ms))
                ELSE [db |-> d, ok |-> TRUE, id |-> (CHOOSE u \in found : TRUE).id]
    IN  /\ made.ok
        /\ CreateLoginToken(DeleteLoginTokensForUser(made.db, made.id), made.id, token,
                            AppNow(ms) + LoginTtlSeconds, StoreNow(ms)).ok

(* C24: a requestLogin for a well-formed email has the same outcome from   *)
(* the same store whether or not the purge of expired tokens runs in it.   *)
C24_PurgeNeverNeeded ==
    [][(last'.op = "start" /\ WellFormed(last'.email)) =>
          (last'.ok <=> StartSucceedsWithoutPurge(db, last'.email, last'.code, clock))]_vars

----------------------------------------------------------------------------
(* Who can store a comment, checked under SpecComments *)

(* C30: the comments table changes only in a successful add-comment        *)
(* request of an Authenticated session, by one new row whose user_id is    *)
(* that session's user id; an add-comment request from a session with no   *)
(* authenticated user is sent to the login page and stores nothing.        *)
C30_OnlyAuthenticatedSessionsComment ==
    /\ [][db'.rows["comments"] # db.rows["comments"] =>
            /\ last'.op = "comment" /\ last'.ok /\ last'.uid # 0
            /\ \E c \in db'.rows["comments"] :
                  /\ db'.rows["comments"] = db.rows["comments"] \cup {c}
                  /\ c \notin db.rows["comments"]
                  /\ c.user_id = last'.uid
                  /\ \E s \in SessionIds :
                        Authenticated(sessions[s]) /\ sessions[s].user.id = c.user_id]_vars
    /\ [][(last'.op = "comment" /\ last'.uid = 0) =>
            /\ db' = db
            /\ ~last'.ok /\ last'.redirect = "/login"]_vars

(* C30 witness: an add-comment request has just been refused for a session *)
(* that only awaits its code, while the table holds a comment stored by    *)
(* the other, signed-in session.                                           *)
C30_AwaitingSessionRefused ==
    /\ last.op = "comment" /\ last.uid = 0 /\ last.redirect = "/login"
    /\ GetRfcBySlug(last.slug) /\ CommentBody(last.body) # <<>>
    /\ \E s, t \in SessionIds :
          /\ AwaitingCode(sessions[s]) /\ ~Authenticated(sessions[s])
          /\ Authenticated(sessions[t])
          /\ \E c \in db.rows["comments"] : c.user_id = sessions[t].user.id

----------------------------------------------------------------------------
(* Several server processes on one app.db: each handler of the login       *)
(* routes runs its statements one at a time, every statement committed on  *)
(* its own, so the statements of requests handled by different processes   *)
(* interleave. A session lives in the memory of the process that serves it *)
(* (caller p serves session p).                                            *)

(* POST /login/start, lines 119-133: up to deleteLoginTokensForUser *)
StartDelete(p, raw) ==
    /\ phase = "ready"
    /\ p \in SessionIds
    /\ inflight[p] = NoCall
    /\ LET email == NormalizeEmail(raw)
           req == [NoRequest EXCEPT !.op = "start", !.email = raw]
       IN
       IF email = <<>>
       THEN /\ last' = Redirect(req, "/login", "Email is required.")
            /\ UNCHANGED <<db, inflight>>
       ELSE
         LET found == FindUserByEmail(db, email)
             made == IF found = {}
                     THEN CreateUser(db, email, StoreNow(clock))
                     ELSE [db |-> db, ok |-> TRUE,
                           id |-> (CHOOSE u \in found : TRUE).id]
         IN
         IF ~made.ok
         THEN /\ db' = made.db
              /\ last' = ServerError(req)
              /\ UNCHANGED inflight
         ELSE /\ db' = DeleteLoginTokensForUser(
                          DeleteExpiredLoginTokens(made.db, StoreNow(clock)), made.id)
              /\ inflight' = [inflight EXCEPT ![p] =
                     [op |-> "start", userId |-> made.id, email |-> email, code |-> <<>>]]
              /\ last' = [NoRequest EXCEPT !.op = "deleteLoginTokensForUser",
                                           !.email = raw, !.uid = made.id, !.ok = TRUE]
    /\ UNCHANGED <<phase, clock, sessions, issued, verified, runs, ticks, origin, lookups>>

(* POST /login/start, lines 135-147: from crypto.randomInt on *)
StartInsert(p, rnd) ==
    /\ phase = "ready"
    /\ inflight[p].op = "start"
    /\ LET uid == inflight[p].userId
           token == NumberToString(rnd)
           expiresAt == AppNow(clock) + LoginTtlSeconds
           ins == CreateLoginToken(db, uid, token, expiresAt, StoreNow(clock))
           req == [NoRequest EXCEPT !.op = "start", !.email = inflight[p].email,
                                    !.uid = uid, !.code = token]
       IN
       /\ db' = ins.db
       /\ IF ~ins.ok
          THEN /\ last' = ServerError(req)
               /\ UNCHANGED <<sessions, issued, verified>>
          ELSE /\ sessions' = [sessions EXCEPT
                     ![p].pendingLogin = [userId |-> uid, email |-> inflight[p].email]]
               /\ last' = [Redirect(req, "/login", "A sign-in code has been sent.")
                             EXCEPT !.ok = TRUE]
               /\ issued' = [issued EXCEPT
                     ![uid] = KeepLast2(Append(@, [code |-> token, at |-> clock]))]
               /\ verified' = [verified EXCEPT ![uid] = <<>>]
    /\ db'.seq["login_tokens"] <= MaxTokenId
    /\ inflight' = [inflight EXCEPT ![p] = NoCall]
    /\ UNCHANGED <<phase, clock, runs, ticks, origin, lookups>>

(* POST /login/verify, lines 151-168: up to findLoginToken *)
VerifyLookup(p, raw) ==
    /\ phase = "ready"
    /\ p \in SessionIds
    /\ inflight[p] = NoCall
    /\ LET code == Trim(raw)
           pendingLogin == sessions[p].pendingLogin
           req == [NoRequest EXCEPT !.op = "verify", !.code = code,
                                    !.uid = pendingLogin.userId]
       IN
       IF pendingLogin = NoLogin
       THEN /\ last' = Redirect([req EXCEPT !.cause = "nopending"], "/login",
                                "Request a sign-in code before verifying.")
            /\ UNCHANGED <<db, inflight>>
       ELSE IF code = <<>>
       THEN /\ last' = Redirect([req EXCEPT !.cause = "nocode"], "/login",
                                "Enter the sign-in code sent to your email.")
            /\ UNCHANGED <<db, inflight>>
       ELSE
         LET loginToken == FindLoginToken(db, pendingLogin.userId, code, StoreNow(clock)) IN
         IF loginToken = {}
         THEN /\ db' = RefusedVerify(db, pendingLogin.userId)
              /\ last' = InvalidCodeResponse(
                            [req EXCEPT !.cause = VerifyCause(db, pendingLogin.userId,
                                                             code, clock)])
              /\ UNCHANGED inflight
         ELSE /\ inflight' = [inflight EXCEPT ![p] =
                     [op |-> "verify", userId |-> pendingLogin.userId,
                      email |-> pendingLogin.email, code |-> code]]
              /\ last' = [NoRequest EXCEPT !.op = "findLoginToken", !.code = code,
                                           !.uid = pendingLogin.userId, !.ok = TRUE]
              /\ UNCHANGED db
    /\ UNCHANGED <<phase, clock, sessions, issued, verified, runs, ticks, origin, lookups>>

(* POST /login/verify, lines 170-174: from deleteLoginTokensForUser on *)
VerifyDelete(p) ==
    /\ phase = "ready"
    /\ inflight[p].op = "verify"
    /\ LET pendingLogin == [userId |-> inflight[p].userId, email |-> inflight[p].email] IN
       /\ db' = DeleteLoginTokensForUser(db, pendingLogin.userId)
       /\ sessions' = [sessions EXCEPT ![p] = SignedIn(pendingLogin)]
       /\ last' = [Redirect([NoRequest EXCEPT !.op = "verify", !.code = inflight[p].code,
                                              !.uid = pendingLogin.userId],
                            "/", "Signed in successfully.")
                     EXCEPT !.ok = TRUE]
       /\ issued' = [issued EXCEPT ![pendingLogin.userId] = <<>>]
       /\ verified' = [verified EXCEPT
             ![pendingLogin.userId] = KeepLast2(Append(@, inflight[p].code))]
    /\ inflight' = [inflight EXCEPT ![p] = NoCall]
    /\ UNCHANGED <<phase, clock, runs, ticks, origin, lookups>>

NextOverlap ==
    \/ \E p \in Callers, raw \in CommentEmails : StartDelete(p, raw)
    \/ \E p \in Callers, rnd \in RandomInts : StartInsert(p, rnd)
    \/ \E p \in Callers, raw \in CodeInputs : VerifyLookup(p, raw)
    \/ \E p \in Callers : VerifyDelete(p)
    \/ \E step \in ClockSteps : Tick(step)

SpecOverlap == Init /\ [][NextOverlap]_vars

Idle == \A p \in Callers : inflight[p] = NoCall

(* C21: once no request is in progress, the user of the last successful    *)
(* requestLogin has exactly one stored token.                              *)
C21_OverlappingIssuesLeaveOneToken ==
    (Idle /\ last.op = "start" /\ last.ok) => Cardinality(TokensOf(last.uid)) = 1

(* C22: of the verifyLogin calls that present the code of one issued token *)
(* at most one succeeds: since the last issue for a user no code has been  *)
(* accepted for that user more than once.                                  *)
C22_OverlappingVerifiesOneSucceeds ==
    \A u \in UserIds : \A i, j \in DOMAIN verified[u] :
        verified[u][i] = verified[u][j] => i = j

====
